---- MODULE Spec2Model ----
(***************************************************************************)
(* Campus Access Management System (HACKATHON_Backend).                    *)
(*                                                                         *)
(* State machine of the relational store (rooms, users, room reservations, *)
(* access cards, access logs), of the HTTP handlers that read and write    *)
(* it, and of the migrations that prepare its schema.  One action per      *)
(* handler; the HTTP answer of the last handler is kept in `response'.     *)
(* Datetimes are modelled as the integers 0..MaxTime (only their order is  *)
(* used by the code).  Primary keys are uuid4 strings that the code only   *)
(* compares for equality: a new row gets the smallest id not in use, which *)
(* stands for any fresh id (the tables are symmetric in the ids).          *)
(***************************************************************************)
EXTENDS Integers, FiniteSets, Sequences, TLC

\* ------------------------------------------------------------------ bounds
NumRooms == 2
NumUsers == 1
NumRes   == 2
MaxTime  == 2
MaxCap   == 2
NumProcs == 2
NumCards == 2
NumLogs  == 2
NumAccounts == 2
NumEmails == 2

RoomIds == 1..NumRooms
UserIds == 1..NumUsers
ResIds  == 1..NumRes
Times   == 0..MaxTime
Procs   == 1..NumProcs
CardIds == 1..NumCards
LogIds  == 1..NumLogs
\* Ids of the rows of users and the email addresses of the runs that look
\* at the emails.
AccountIds == 1..NumAccounts
Emails == 1..NumEmails

\* An Optional[...] field of an update body that the client left out
\* (pydantic default None, not in the set of fields that were set) ...
Unset == -1
\* ... and one the client sent as an explicit JSON null (None, but set).
Null == -2

\* No entity id (the answer carries no entity).
NoId == 0

\* An optional field that holds a value (neither left out nor null).
Given(x) == x # Unset /\ x # Null

VARIABLES
    rooms,          \* table rooms: room id -> [capacity]
    users,          \* table users: set of user ids
    reservations,   \* table room_reservations: reservation id -> row
    response,       \* HTTP answer of the last handler that ran
    pending,        \* per worker: the create request that passed its checks
                    \* and has not committed yet (Idle when there is none)
    cards,          \* table access_cards: card id -> row
    logs,           \* table access_logs: log id -> row
    started,        \* the startup event (migrations) has run
    emails,         \* column users.email: user id -> email
    schema          \* the MySQL database: its tables, the presence of
                    \* access_logs.granted, whether its storage engine
                    \* enforces foreign keys

\* The tables of the access subsystem.
access == <<cards, logs, started>>

\* The emails of the users and the schema of the database: the handlers of
\* rooms, reservations, cards and logs neither read nor write them.
setup == <<emails, schema>>

vars == <<rooms, users, reservations, response, pending, cards, logs, started,
          emails, schema>>

Idle == [room_id |-> NoId]

\* ------------------------------------------------------------ HTTP answers
Answer(op, st, detail, id) ==
    [op |-> op, status |-> st, detail |-> detail, id |-> id]

RoomNotFound        == "Room not found"
UserNotFound        == "User not found"
ReservationNotFound == "Reservation not found"
CapacityExceeded    == "Expected occupants exceed room capacity"
TimeConflict        == "Time conflict: Room is already reserved for this time period"
StartBeforeEnd      == "Start time must be before end time"
EndAfterStart       == "End time must be after start time"
OccupantsPositive   == "expected_occupants: ensure this value is greater than 0"
CapacityPositive    == "capacity: ensure this value is greater than 0"
NotNullViolation    == "(1048, Column cannot be null)"

\* global_exception_handler: an exception no handler catches is answered 500
\* with the body {"error": "Internal server error", "message": str(exc)};
\* the detail of the answer holds the message.
GlobalExceptionHandler(op, exc) == Answer(op, 500, {exc}, NoId)

\* default=lambda: str(uuid.uuid4()) of the primary key column.
FreshId(ids, used) == CHOOSE i \in ids \ used : \A j \in ids \ used : i <= j

\* ------------------------------------------------------------------- rooms
\* POST /rooms: RoomCreate.capacity has gt=0.
CreateRoom(capacity) ==
    /\ IF capacity <= 0
       THEN /\ response' = Answer("create_room", 422, {CapacityPositive}, NoId)
            /\ UNCHANGED rooms
       ELSE /\ RoomIds \ DOMAIN rooms # {}
            /\ LET id == FreshId(RoomIds, DOMAIN rooms) IN
               /\ rooms' = rooms @@ (id :> [capacity |-> capacity])
               /\ response' = Answer("create_room", 201, {}, id)
    /\ UNCHANGED <<users, reservations, pending, access, setup>>

\* Bodies of PUT /rooms/{id}: RoomUpdate.capacity is Optional with gt=0
\* (name and location do not enter any check).
UpdateRoomRequests == [capacity : (0..MaxCap) \cup {Unset, Null}]

\* PUT /rooms/{room_id}: every field the client sent is written to the room;
\* the reservations of the room are not looked at.  A null capacity breaks
\* nullable=False at db.commit() and nothing is written.
UpdateRoom(room_id, req) ==
    /\ IF Given(req.capacity) /\ req.capacity <= 0
       THEN /\ response' = Answer("update_room", 422, {CapacityPositive}, NoId)
            /\ UNCHANGED rooms
       ELSE IF room_id \notin DOMAIN rooms
       THEN /\ response' = Answer("update_room", 404, {RoomNotFound}, NoId)
            /\ UNCHANGED rooms
       ELSE IF req.capacity = Null
       THEN /\ response' = GlobalExceptionHandler("update_room", NotNullViolation)
            /\ UNCHANGED rooms
       ELSE /\ rooms' = [rooms EXCEPT ![room_id].capacity =
                            IF req.capacity = Unset THEN @ ELSE req.capacity]
            /\ response' = Answer("update_room", 200, {}, room_id)
    /\ UNCHANGED <<users, reservations, pending, access, setup>>

\* Faulty variant: the room is deleted and its reservations are left behind.
DeleteRoomKeepsReservations(room_id) ==
    /\ IF room_id \notin DOMAIN rooms
       THEN /\ response' = Answer("delete_room", 404, {RoomNotFound}, NoId)
            /\ UNCHANGED rooms
       ELSE /\ rooms' = [id \in DOMAIN rooms \ {room_id} |-> rooms[id]]
            /\ response' = Answer("delete_room", 204, {}, room_id)
    /\ UNCHANGED <<users, reservations, pending, access, setup>>

\* DELETE /rooms/{room_id}: Room.reservations has
\* cascade="all, delete-orphan", so db.delete(room) deletes the reservations
\* of the room with it.
DeleteRoom(room_id) ==
    /\ IF room_id \notin DOMAIN rooms
       THEN /\ response' = Answer("delete_room", 404, {RoomNotFound}, NoId)
            /\ UNCHANGED <<rooms, reservations>>
       ELSE /\ rooms' = [id \in DOMAIN rooms \ {room_id} |-> rooms[id]]
            /\ reservations' =
                  [id \in {r \in DOMAIN reservations :
                              reservations[r].room_id # room_id}
                      |-> reservations[id]]
            /\ response' = Answer("delete_room", 204, {}, room_id)
    /\ UNCHANGED <<users, pending, access, setup>>

\* ------------------------------------------------------------------- users
EmailExists == "User with this email already exists"

\* The emails of the stored users.
UserEmails == {emails[id] : id \in DOMAIN emails}

\* Bodies of POST /users (password and role do not enter any check).
CreateUserRequests == [email : Emails]

\* Faulty variant: the email is not looked up before the insert.
CreateUserResultNoLookup(ids, req) ==
    LET id == IF ids \ users = {} THEN NoId ELSE FreshId(ids, users) IN
    [answer |-> Answer("create_user", 201, {}, id),
     users |-> users \cup {id}, emails |-> emails @@ (id :> req.email)]

\* What create_user answers and the users it leaves behind (the new row
\* takes its id from ids): a user with the email is looked up, then the row
\* is inserted.
CreateUserResult(ids, req) ==
    IF req.email \in UserEmails
    THEN [answer |-> Answer("create_user", 400, {EmailExists}, NoId),
          users |-> users, emails |-> emails]
    ELSE LET id == IF ids \ users = {} THEN NoId ELSE FreshId(ids, users) IN
         [answer |-> Answer("create_user", 201, {}, id),
          users |-> users \cup {id}, emails |-> emails @@ (id :> req.email)]

\* POST /users with an email that is not in use (the first free one).
CreateUser ==
    /\ started
    /\ UserIds \ users # {}
    /\ Emails \ UserEmails # {}
    /\ LET out == CreateUserResult(UserIds,
                                   [email |-> FreshId(Emails, UserEmails)]) IN
       /\ users' = out.users
       /\ emails' = out.emails
       /\ response' = out.answer
    /\ UNCHANGED <<rooms, reservations, pending, access, schema>>

\* POST /users with any email.
CreateAccount(req) ==
    /\ started
    /\ AccountIds \ users # {}
    /\ LET out == CreateUserResult(AccountIds, req) IN
       /\ users' = out.users
       /\ emails' = out.emails
       /\ response' = out.answer
    /\ UNCHANGED <<rooms, reservations, pending, access, schema>>

\* Bodies of PUT /users/{user_id}: UserUpdate.email is Optional (role does
\* not enter any check).
UpdateUserRequests == [email : Emails \cup {Unset, Null}]

\* What update_user answers and the emails it leaves behind: the user is
\* looked up; an email that is given and differs from the stored one is
\* looked up among all users; every field the client sent is written (a
\* null email breaks nullable=False at db.commit()).
UpdateUserResult(user_id, req) ==
    IF user_id \notin users
    THEN [answer |-> Answer("update_user", 404, {UserNotFound}, NoId),
          emails |-> emails]
    ELSE IF /\ Given(req.email)
            /\ req.email # emails[user_id]
            /\ req.email \in UserEmails
    THEN [answer |-> Answer("update_user", 400, {EmailExists}, NoId),
          emails |-> emails]
    ELSE IF req.email = Null
    THEN [answer |-> GlobalExceptionHandler("update_user", NotNullViolation),
          emails |-> emails]
    ELSE [answer |-> Answer("update_user", 200, {}, user_id),
          emails |-> IF req.email = Unset THEN emails
                     ELSE [emails EXCEPT ![user_id] = req.email]]

\* PUT /users/{user_id}
UpdateUser(user_id, req) ==
    /\ started
    /\ emails' = UpdateUserResult(user_id, req).emails
    /\ response' = UpdateUserResult(user_id, req).answer
    /\ UNCHANGED <<rooms, users, reservations, pending, access, schema>>

\* ------------------------------------------------------------ reservations
\* Bodies of POST /reservations.
CreateRequests ==
    [room_id : RoomIds, reserved_by : UserIds,
     start_time : Times, end_time : Times,
     expected_occupants : 0..(MaxCap + 1)]

\* Faulty variant: the validator rejects only end_time < start_time.
CreateSchemaErrorsStrict(req) ==
    (IF req.end_time < req.start_time THEN {EndAfterStart} ELSE {})
    \cup (IF req.expected_occupants > 0 THEN {} ELSE {OccupantsPositive})

\* RoomReservationCreate: Field(gt=0) of expected_occupants and the
\* validator of end_time; pydantic reports all failing fields at once (422).
CreateSchemaErrors(req) ==
    (IF req.end_time <= req.start_time THEN {EndAfterStart} ELSE {})
    \cup (IF req.expected_occupants > 0 THEN {} ELSE {OccupantsPositive})

\* Faulty variant: the filter only sees a row that contains the new start.
OverlapsStartInside(r, start_time, end_time) ==
    r.start_time <= start_time /\ r.end_time > start_time

\* Faulty variant: the filter compares with <= and >= (closed intervals).
OverlapsClosed(r, start_time, end_time) ==
    r.start_time <= end_time /\ r.end_time >= start_time

\* The filter of the conflict query on one row.
Overlaps(r, start_time, end_time) ==
    r.start_time < end_time /\ r.end_time > start_time

\* Faulty variant: the conflict query only looks at rows with the same start_time.
ConflictingReservationsSameStart(room_id, start_time, end_time) ==
    {id \in DOMAIN reservations :
        /\ reservations[id].room_id = room_id
        /\ reservations[id].start_time = start_time
        /\ reservations[id].end_time > end_time}

\* Rows the conflict query of create_reservation selects.
ConflictingReservations(room_id, start_time, end_time) ==
    {id \in DOMAIN reservations :
        /\ reservations[id].room_id = room_id
        /\ Overlaps(reservations[id], start_time, end_time)}

\* Faulty variant: a request that fills the room exactly counts as exceeding it.
ExceedsCapacityGE(req) ==
    req.expected_occupants >= rooms[req.room_id].capacity

\* reservation_data.expected_occupants > room.capacity
ExceedsCapacity(req) ==
    req.expected_occupants > rooms[req.room_id].capacity

\* Faulty variant: the user is looked up before the room.
CreateChecksUserFirst(req) ==
    IF CreateSchemaErrors(req) # {} THEN <<422, CreateSchemaErrors(req)>>
    ELSE IF req.reserved_by \notin users THEN <<404, {UserNotFound}>>
    ELSE IF req.room_id \notin DOMAIN rooms THEN <<404, {RoomNotFound}>>
    ELSE IF ExceedsCapacity(req) THEN <<400, {CapacityExceeded}>>
    ELSE IF ConflictingReservations(req.room_id, req.start_time, req.end_time) # {}
         THEN <<400, {TimeConflict}>>
    ELSE <<201, {}>>

\* The checks of create_reservation in the order the request meets them:
\* <<201, {}>> when the request is admitted, else <<status, detail>> of the
\* failure.
CreateChecks(req) ==
    IF CreateSchemaErrors(req) # {} THEN <<422, CreateSchemaErrors(req)>>
    ELSE IF req.room_id \notin DOMAIN rooms THEN <<404, {RoomNotFound}>>
    ELSE IF req.reserved_by \notin users THEN <<404, {UserNotFound}>>
    ELSE IF ExceedsCapacity(req) THEN <<400, {CapacityExceeded}>>
    ELSE IF ConflictingReservations(req.room_id, req.start_time, req.end_time) # {}
         THEN <<400, {TimeConflict}>>
    ELSE <<201, {}>>

\* db.add(RoomReservation(...)); db.commit()
InsertReservation(id, req) == reservations @@ (id :> req)

\* The id of the next row of room_reservations (NoId when the table of the
\* model is full).
NextReservationId ==
    IF ResIds \ DOMAIN reservations = {} THEN NoId
    ELSE FreshId(ResIds, DOMAIN reservations)

\* What create_reservation answers and the table it leaves behind.
CreateResult(req) ==
    LET out == CreateChecks(req) IN
    IF out[1] = 201
    THEN [answer |-> Answer("create_reservation", 201, {}, NextReservationId),
          table |-> InsertReservation(NextReservationId, req)]
    ELSE [answer |-> Answer("create_reservation", out[1], out[2], NoId),
          table |-> reservations]

\* POST /reservations, the whole handler in one step.
CreateReservation(req) ==
    /\ CreateResult(req).answer.status = 201 => NextReservationId # NoId
    /\ reservations' = CreateResult(req).table
    /\ response' = CreateResult(req).answer
    /\ UNCHANGED <<rooms, users, pending, access, setup>>

\* Bodies of PUT /reservations/{id}: every field is optional.
UpdateRequests ==
    [start_time : Times \cup {Unset, Null},
     end_time : Times \cup {Unset, Null},
     expected_occupants : (0..(MaxCap + 1)) \cup {Unset, Null}]

\* `x or stored': None (left out or null) falls back to the stored value;
\* a datetime is always truthy.
OrStored(x, stored) == IF Given(x) THEN x ELSE stored

\* RoomReservationUpdate: Field(gt=0) applies to a value, not to None.
UpdateSchemaErrors(req) ==
    IF Given(req.expected_occupants) /\ req.expected_occupants <= 0
    THEN {OccupantsPositive} ELSE {}

\* Faulty variant: the conflict query does not exclude the reservation itself.
ConflictingOthersWithSelf(reservation_id, start_time, end_time) ==
    {id \in DOMAIN reservations :
        /\ reservations[id].room_id = reservations[reservation_id].room_id
        /\ Overlaps(reservations[id], start_time, end_time)}

\* Rows the conflict query of update_reservation selects.
ConflictingOthers(reservation_id, start_time, end_time) ==
    {id \in DOMAIN reservations :
        /\ reservations[id].room_id = reservations[reservation_id].room_id
        /\ id # reservation_id
        /\ Overlaps(reservations[id], start_time, end_time)}

\* Faulty variant: the range is compared only when the request supplies both
\* start_time and end_time (no fall-back to the stored value of the other).
UpdateChecksBothSupplied(reservation_id, req) ==
    IF UpdateSchemaErrors(req) # {} THEN <<422, UpdateSchemaErrors(req)>>
    ELSE IF reservation_id \notin DOMAIN reservations
         THEN <<404, {ReservationNotFound}>>
    ELSE IF Given(req.start_time) \/ Given(req.end_time)
         THEN LET start_time == OrStored(req.start_time,
                                         reservations[reservation_id].start_time)
                  end_time == OrStored(req.end_time,
                                       reservations[reservation_id].end_time)
              IN IF /\ Given(req.start_time) /\ Given(req.end_time)
                    /\ start_time >= end_time
                 THEN <<400, {StartBeforeEnd}>>
                 ELSE IF ConflictingOthers(reservation_id, start_time, end_time) # {}
                      THEN <<400, {TimeConflict}>>
                 ELSE <<200, {}>>
    ELSE <<200, {}>>

\* The checks of update_reservation in the order the request meets them.
UpdateChecks(reservation_id, req) ==
    IF UpdateSchemaErrors(req) # {} THEN <<422, UpdateSchemaErrors(req)>>
    ELSE IF reservation_id \notin DOMAIN reservations
         THEN <<404, {ReservationNotFound}>>
    ELSE IF Given(req.start_time) \/ Given(req.end_time)
         THEN LET start_time == OrStored(req.start_time,
                                         reservations[reservation_id].start_time)
                  end_time == OrStored(req.end_time,
                                       reservations[reservation_id].end_time)
              IN IF start_time >= end_time THEN <<400, {StartBeforeEnd}>>
                 ELSE IF ConflictingOthers(reservation_id, start_time, end_time) # {}
                      THEN <<400, {TimeConflict}>>
                 ELSE <<200, {}>>
    ELSE <<200, {}>>

\* Faulty variant: dict() without exclude_unset, the fields left out are written
\* as None.
ApplyUpdateAllFields(row, req) ==
    [row EXCEPT
        !.start_time = IF Given(req.start_time) THEN req.start_time ELSE Null,
        !.end_time = IF Given(req.end_time) THEN req.end_time ELSE Null,
        !.expected_occupants =
            IF Given(req.expected_occupants) THEN req.expected_occupants
            ELSE Null]

\* reservation_data.dict(exclude_unset=True) and the setattr loop: every
\* field the client sent, null included, is written to the row.
ApplyUpdate(row, req) ==
    [row EXCEPT
        !.start_time = IF req.start_time = Unset THEN @ ELSE req.start_time,
        !.end_time = IF req.end_time = Unset THEN @ ELSE req.end_time,
        !.expected_occupants =
            IF req.expected_occupants = Unset THEN @ ELSE req.expected_occupants]

\* The columns of room_reservations are nullable=False: db.commit() of a
\* row holding None raises IntegrityError and nothing is written.
ViolatesNotNull(row) ==
    \/ row.start_time = Null
    \/ row.end_time = Null
    \/ row.expected_occupants = Null

\* Faulty variant: the fields are written before the checks are made, so a
\* rejected update leaves its fields in the row.
UpdateResultWriteFirst(reservation_id, req) ==
    LET out == UpdateChecks(reservation_id, req)
        written ==
            IF reservation_id \notin DOMAIN reservations THEN reservations
            ELSE LET row == ApplyUpdate(reservations[reservation_id], req) IN
                 IF ViolatesNotNull(row) THEN reservations
                 ELSE [reservations EXCEPT ![reservation_id] = row]
    IN IF out[1] # 200
       THEN [answer |-> Answer("update_reservation", out[1], out[2], NoId),
             table |-> written]
       ELSE IF ViolatesNotNull(ApplyUpdate(reservations[reservation_id], req))
       THEN [answer |-> GlobalExceptionHandler("update_reservation",
                                               NotNullViolation),
             table |-> reservations]
       ELSE [answer |-> Answer("update_reservation", 200, {}, reservation_id),
             table |-> written]

\* What update_reservation answers and the table it leaves behind.
UpdateResult(reservation_id, req) ==
    LET out == UpdateChecks(reservation_id, req) IN
    IF out[1] # 200
    THEN [answer |-> Answer("update_reservation", out[1], out[2], NoId),
          table |-> reservations]
    ELSE LET row == ApplyUpdate(reservations[reservation_id], req) IN
         IF ViolatesNotNull(row)
         THEN [answer |-> GlobalExceptionHandler("update_reservation",
                                                 NotNullViolation),
               table |-> reservations]
         ELSE [answer |-> Answer("update_reservation", 200, {},
                                 reservation_id),
               table |-> [reservations EXCEPT ![reservation_id] = row]]

\* PUT /reservations/{reservation_id}, the whole handler in one step.
UpdateReservation(reservation_id, req) ==
    /\ reservations' = UpdateResult(reservation_id, req).table
    /\ response' = UpdateResult(reservation_id, req).answer
    /\ UNCHANGED <<rooms, users, pending, access, setup>>

\* Faulty variant: the reservation is answered as deleted and stays stored.
DeleteReservationKeepsRow(reservation_id) ==
    /\ response' = IF reservation_id \notin DOMAIN reservations
                   THEN Answer("delete_reservation", 404,
                               {ReservationNotFound}, NoId)
                   ELSE Answer("delete_reservation", 204, {}, reservation_id)
    /\ UNCHANGED <<rooms, users, reservations, pending, access, setup>>

\* DELETE /reservations/{reservation_id}
DeleteReservation(reservation_id) ==
    /\ IF reservation_id \notin DOMAIN reservations
       THEN /\ UNCHANGED reservations
            /\ response' = Answer("delete_reservation", 404,
                                  {ReservationNotFound}, NoId)
       ELSE /\ reservations' = [id \in DOMAIN reservations \ {reservation_id}
                                   |-> reservations[id]]
            /\ response' = Answer("delete_reservation", 204, {}, reservation_id)
    /\ UNCHANGED <<rooms, users, pending, access, setup>>

\* Faulty variant: the availability query treats touching intervals as
\* conflicting.
AvailabilityConflictsClosed(room_id, start_time, end_time) ==
    {id \in DOMAIN reservations :
        /\ reservations[id].room_id = room_id
        /\ reservations[id].start_time <= end_time
        /\ reservations[id].end_time >= start_time}

\* Rows the query of check_room_availability selects (.all()).
AvailabilityConflicts(room_id, start_time, end_time) ==
    {id \in DOMAIN reservations :
        /\ reservations[id].room_id = room_id
        /\ reservations[id].start_time < end_time
        /\ reservations[id].end_time > start_time}

\* What check_room_availability answers: the range is validated first, then
\* the room is looked up; the body echoes the window and lists id, interval
\* and owner of every conflicting reservation.
AvailabilityResult(room_id, start_time, end_time) ==
    IF start_time >= end_time
    THEN Answer("check_room_availability", 400, {StartBeforeEnd}, NoId)
    ELSE IF room_id \notin DOMAIN rooms
    THEN Answer("check_room_availability", 404, {RoomNotFound}, NoId)
    ELSE LET conflicting == AvailabilityConflicts(room_id, start_time, end_time)
         IN [op |-> "check_room_availability", status |-> 200, detail |-> {},
             id |-> room_id, start_time |-> start_time, end_time |-> end_time,
             is_available |-> (Cardinality(conflicting) = 0),
             conflicting_reservations |->
                 {[id |-> id,
                   start_time |-> reservations[id].start_time,
                   end_time |-> reservations[id].end_time,
                   reserved_by |-> reservations[id].reserved_by] :
                  id \in conflicting}]

\* GET /reservations/room/{room_id}/availability
CheckRoomAvailability(room_id, start_time, end_time) ==
    /\ response' = AvailabilityResult(room_id, start_time, end_time)
    /\ UNCHANGED <<rooms, users, reservations, pending, access, setup>>

\* ------------------------------------------- concurrent create_reservation
\* Two requests served by different worker processes on the same database
\* (inside one process an `async def' handler without await runs to its
\* end): each worker's session reads the committed rows when it runs its
\* queries and writes at db.commit(); nothing (no lock, no constraint on
\* ranges) orders the two.
\* First half of the handler: the checks, up to the conflict query.
CheckReservation(p, req) ==
    /\ pending[p] = Idle
    /\ LET out == CreateChecks(req) IN
       IF out[1] = 201
       THEN /\ pending' = [pending EXCEPT ![p] = req]
            /\ UNCHANGED response
       ELSE /\ UNCHANGED pending
            /\ response' = Answer("create_reservation", out[1], out[2], NoId)
    /\ UNCHANGED <<rooms, users, reservations, access, setup>>

\* Second half: db.add, db.commit.
CommitReservation(p) ==
    /\ pending[p] # Idle
    /\ NextReservationId # NoId
    /\ reservations' = InsertReservation(NextReservationId, pending[p])
    /\ response' = Answer("create_reservation", 201, {}, NextReservationId)
    /\ pending' = [pending EXCEPT ![p] = Idle]
    /\ UNCHANGED <<rooms, users, access, setup>>

\* ------------------------------------------------------------ access cards
\* card_number is a free string: one number per card of the model.
CardNumbers == 1..NumCards

Locations == {"Library", "Lab"}

\* The values of the MySQL ENUM column access_cards.status (the names of the
\* members of CardStatus) and of CardStatusEnum of the API.
CardStatusNames == {"active", "lost", "disabled"}

\* class CardStatus(enum.Enum): the member the ORM returns for a stored
\* name.  A member of a plain Enum is equal to nothing but itself, in
\* particular not to the string of its name.
CardStatus ==
    [active |-> "CardStatus.active", lost |-> "CardStatus.lost",
     disabled |-> "CardStatus.disabled"]

\* card.status as the handler reads it from a loaded AccessCard: the enum
\* member of the stored name, None for a NULL (the column is nullable).
LoadedStatus(card) ==
    IF card.status \in CardStatusNames THEN CardStatus[card.status] ELSE "None"

\* status of an AccessCardUpdate body: left out, or an explicit null.
StatusUnset == "unset"
StatusNull  == "NULL"

CardNotFound      == "Access card not found"
CardNumberExists  == "Access card with this number already exists"
InvalidAccessType == "Invalid access type. Must be one of: entry, exit, denied"
InvalidKeyword    == "'granted' is an invalid keyword argument for AccessLog"
StrHasNoAttribute == "'str' object has no attribute 'HTTP_404_NOT_FOUND'"
StrHasNoBadRequest == "'str' object has no attribute 'HTTP_400_BAD_REQUEST'"
ResponseInvalid   == "status: none is not an allowed value"

\* Bodies of POST /access-cards (status defaults to active).
CreateCardRequests ==
    [user_id : UserIds, card_number : CardNumbers, status : CardStatusNames]

\* Ids of the cards that carry card_number (at most one: the handler checks,
\* and the column is unique).
CardsWithNumber(card_number) ==
    {id \in DOMAIN cards : cards[id].card_number = card_number}

\* The id of the next row of access_cards (NoId when the table of the model
\* is full).
NextCardId ==
    IF CardIds \ DOMAIN cards = {} THEN NoId ELSE FreshId(CardIds, DOMAIN cards)

\* Faulty variant: the card number is not looked up before the insert.
CreateCardResultNoNumberCheck(req) ==
    IF req.user_id \notin users
    THEN [answer |-> Answer("create_access_card", 404, {UserNotFound}, NoId),
          table |-> cards]
    ELSE [answer |-> Answer("create_access_card", 201, {}, NextCardId),
          table |-> cards @@ (NextCardId :> req)]

\* What create_access_card answers and the table it leaves behind: the user
\* is looked up, then a card with the same card_number, then the row is
\* inserted.
CreateCardResult(req) ==
    IF req.user_id \notin users
    THEN [answer |-> Answer("create_access_card", 404, {UserNotFound}, NoId),
          table |-> cards]
    ELSE IF CardsWithNumber(req.card_number) # {}
    THEN [answer |-> Answer("create_access_card", 400, {CardNumberExists}, NoId),
          table |-> cards]
    ELSE [answer |-> Answer("create_access_card", 201, {}, NextCardId),
          table |-> cards @@ (NextCardId :> req)]

\* POST /access-cards
CreateAccessCard(req) ==
    /\ started
    /\ CreateCardResult(req).answer.status = 201 => NextCardId # NoId
    /\ cards' = CreateCardResult(req).table
    /\ response' = CreateCardResult(req).answer
    /\ UNCHANGED <<rooms, users, reservations, pending, logs, started, setup>>

\* Bodies of PUT /access-cards/{card_id}.
UpdateCardRequests == CardStatusNames \cup {StatusUnset, StatusNull}

\* PUT /access-cards/{card_id}: AccessCardUpdate.status is Optional; a null
\* is written as NULL (the column is nullable) and committed, and the card
\* returned then fails the validation of the response model, whose status
\* is not Optional.
UpdateAccessCard(card_id, new_status) ==
    /\ started
    /\ IF card_id \notin DOMAIN cards
       THEN /\ response' = Answer("update_access_card", 404, {CardNotFound}, NoId)
            /\ UNCHANGED cards
       ELSE /\ cards' = [cards EXCEPT ![card_id].status =
                            IF new_status = StatusUnset THEN @ ELSE new_status]
            /\ response' =
                  IF cards'[card_id].status \in CardStatusNames
                  THEN Answer("update_access_card", 200, {}, card_id)
                  ELSE GlobalExceptionHandler("update_access_card",
                                              ResponseInvalid)
    /\ UNCHANGED <<rooms, users, reservations, pending, logs, started, setup>>

\* PUT /access-cards/{card_id}/status?status=...: the parameter `status'
\* hides the module fastapi.status, so both error branches fail on
\* status.HTTP_... (AttributeError, answered 500 by the global handler).
UpdateCardStatus(card_id, new_status) ==
    /\ started
    /\ IF card_id \notin DOMAIN cards
       THEN /\ response' = GlobalExceptionHandler("update_card_status",
                                                  StrHasNoAttribute)
            /\ UNCHANGED cards
       ELSE IF new_status \notin CardStatusNames
       THEN /\ response' = GlobalExceptionHandler("update_card_status",
                                                  StrHasNoBadRequest)
            /\ UNCHANGED cards
       ELSE /\ cards' = [cards EXCEPT ![card_id].status = new_status]
            /\ response' = Answer("update_card_status", 200, {}, card_id)
    /\ UNCHANGED <<rooms, users, reservations, pending, logs, started, setup>>

\* Rows of access_logs that session.delete(card) removes with the cards:
\* AccessCard.access_logs has cascade="all, delete-orphan", so the unit of
\* work deletes the logs of a deleted card (ON DELETE SET NULL of the
\* foreign key would act only on rows the session leaves behind).
LogsOfCards(card_ids) == {id \in DOMAIN logs : logs[id].card_id \in card_ids}

Without(table, ids) == [id \in DOMAIN table \ ids |-> table[id]]

\* DELETE /access-cards/{card_id}
DeleteAccessCard(card_id) ==
    /\ started
    /\ IF card_id \notin DOMAIN cards
       THEN /\ response' = Answer("delete_access_card", 404, {CardNotFound}, NoId)
            /\ UNCHANGED <<cards, logs>>
       ELSE /\ cards' = Without(cards, {card_id})
            /\ logs' = Without(logs, LogsOfCards({card_id}))
            /\ response' = Answer("delete_access_card", 204, {}, card_id)
    /\ UNCHANGED <<rooms, users, reservations, pending, started, setup>>

\* DELETE /users/{user_id}: User.access_cards and User.room_reservations
\* have cascade="all, delete-orphan".
DeleteUser(user_id) ==
    /\ started
    /\ IF user_id \notin users
       THEN /\ response' = Answer("delete_user", 404, {UserNotFound}, NoId)
            /\ UNCHANGED <<users, emails, cards, logs, reservations>>
       ELSE LET owned == {id \in DOMAIN cards : cards[id].user_id = user_id} IN
            /\ users' = users \ {user_id}
            /\ emails' = Without(emails, {user_id})
            /\ cards' = Without(cards, owned)
            /\ logs' = Without(logs, LogsOfCards(owned))
            /\ reservations' =
                  Without(reservations,
                          {id \in DOMAIN reservations :
                              reservations[id].reserved_by = user_id})
            /\ response' = Answer("delete_user", 204, {}, user_id)
    /\ UNCHANGED <<rooms, pending, started, schema>>

\* ------------------------------------------------------------- access logs
\* The names of AccessType / AccessTypeEnum.
AccessTypeNames == {"entry", "exit", "denied"}

\* access_type of simulate_access is a query parameter of type str.
RequestedTypes == AccessTypeNames \cup {"open"}

\* The attributes of the mapped class AccessLog: its columns and its
\* relationship.  There is no attribute `granted'.
AccessLogAttributes ==
    {"id", "card_id", "accessed_at", "location", "access_type", "card"}

\* AccessLog(**kwargs): the constructor of a declarative class raises
\* TypeError for a keyword that is not an attribute of the class.
InvalidKeywords(kwargs) == DOMAIN kwargs \ AccessLogAttributes

\* The id of the next row of access_logs (NoId when the table of the model
\* is full).
NextLogId ==
    IF LogIds \ DOMAIN logs = {} THEN NoId ELSE FreshId(LogIds, DOMAIN logs)

\* db.add(db_log); db.commit(): the row as the table stores it; a column the
\* INSERT does not name takes its default (granted BOOLEAN ... DEFAULT TRUE).
StoredLog(kwargs) ==
    [card_id |-> kwargs.card_id, location |-> kwargs.location,
     access_type |-> kwargs.access_type,
     granted |-> IF "granted" \in DOMAIN kwargs THEN kwargs.granted ELSE TRUE]

\* The end of both handlers that write a log: construct the AccessLog from
\* the keywords, add and commit it.
WriteLog(op, kwargs) ==
    IF InvalidKeywords(kwargs) # {}
    THEN [answer |-> GlobalExceptionHandler(op, InvalidKeyword),
          table |-> logs]
    ELSE [answer |-> Answer(op, 201, {}, NextLogId),
          table |-> logs @@ (NextLogId :> StoredLog(kwargs))]

\* Bodies of POST /access-logs: AccessLogCreate (granted is required by the
\* schema and not used by the handler).
CreateLogRequests ==
    [card_id : CardIds, location : Locations, access_type : AccessTypeNames,
     granted : BOOLEAN]

\* What create_access_log answers and the table it leaves behind.
CreateLogResult(req) ==
    IF req.card_id \notin DOMAIN cards
    THEN [answer |-> Answer("create_access_log", 404, {CardNotFound}, NoId),
          table |-> logs]
    ELSE WriteLog("create_access_log",
                  [card_id |-> req.card_id, location |-> req.location,
                   access_type |-> req.access_type,
                   granted |-> (req.access_type # "denied")])

\* POST /access-logs
CreateAccessLog(req) ==
    /\ started
    /\ CreateLogResult(req).answer.status = 201 => NextLogId # NoId
    /\ logs' = CreateLogResult(req).table
    /\ response' = CreateLogResult(req).answer
    /\ UNCHANGED <<rooms, users, reservations, pending, cards, started, setup>>

\* Query parameters of POST /access-logs/simulate-access.
SimulateRequests ==
    [card_number : CardNumbers, location : Locations,
     access_type : RequestedTypes]

\* `if card.status != "active": access_type = "denied"': card.status is the
\* loaded value of the Enum(CardStatus) column, compared with a str.
EffectiveAccessType(card, access_type) ==
    IF LoadedStatus(card) # "active" THEN "denied" ELSE access_type

\* Faulty variant: the card is looked up before the type is validated.
SimulateResultCardFirst(req) ==
    IF CardsWithNumber(req.card_number) = {}
    THEN [answer |-> Answer("simulate_access", 404, {CardNotFound}, NoId),
          table |-> logs]
    ELSE IF req.access_type \notin AccessTypeNames
    THEN [answer |-> Answer("simulate_access", 400, {InvalidAccessType}, NoId),
          table |-> logs]
    ELSE LET card_id == CHOOSE id \in CardsWithNumber(req.card_number) : TRUE
             access_type == EffectiveAccessType(cards[card_id], req.access_type)
         IN WriteLog("simulate_access",
                     [card_id |-> card_id, location |-> req.location,
                      access_type |-> access_type,
                      granted |-> (access_type # "denied")])

\* What simulate_access answers and the table it leaves behind: the type is
\* validated, the card looked up by its number, the type forced, the log
\* written.
SimulateResult(req) ==
    IF req.access_type \notin AccessTypeNames
    THEN [answer |-> Answer("simulate_access", 400, {InvalidAccessType}, NoId),
          table |-> logs]
    ELSE IF CardsWithNumber(req.card_number) = {}
    THEN [answer |-> Answer("simulate_access", 404, {CardNotFound}, NoId),
          table |-> logs]
    ELSE LET card_id == CHOOSE id \in CardsWithNumber(req.card_number) : TRUE
             access_type == EffectiveAccessType(cards[card_id], req.access_type)
         IN WriteLog("simulate_access",
                     [card_id |-> card_id, location |-> req.location,
                      access_type |-> access_type,
                      granted |-> (access_type # "denied")])

\* POST /access-logs/simulate-access
SimulateAccess(req) ==
    /\ started
    /\ SimulateResult(req).answer.status = 201 => NextLogId # NoId
    /\ logs' = SimulateResult(req).table
    /\ response' = SimulateResult(req).answer
    /\ UNCHANGED <<rooms, users, reservations, pending, cards, started, setup>>

\* --------------------------------------------------------------- migrations
\* Faulty variant: the column is added with its default and the rows are not
\* updated.
AddGrantedColumnNoBackfill(row) ==
    [card_id |-> row.card_id, location |-> row.location,
     access_type |-> row.access_type, granted |-> TRUE]

\* add_granted_column_to_access_logs on a table without the column:
\* ALTER TABLE ... ADD COLUMN granted BOOLEAN NOT NULL DEFAULT TRUE, then
\* UPDATE ... SET granted = (access_type != 'denied') WHERE granted = TRUE.
AddGrantedColumn(row) ==
    LET added == [card_id |-> row.card_id, location |-> row.location,
                  access_type |-> row.access_type, granted |-> TRUE]
    IN IF added.granted = TRUE
       THEN [added EXCEPT !.granted = (added.access_type # "denied")]
       ELSE added

\* __tablename__ of the mapped classes: the tables of Base.metadata.
ModelTables ==
    {"users", "roles", "user_roles", "access_cards", "access_logs", "rooms",
     "room_reservations", "students", "professors"}

\* The names a table of the database can have: the tables of the models and
\* reservations, which the tests of the migrations look for.
TableNames == ModelTables \cup {"reservations"}

\* The tables the ForeignKey columns of a table refer to.
References(t) ==
    CASE t = "user_roles" -> {"users", "roles"}
      [] t = "access_cards" -> {"users"}
      [] t = "access_logs" -> {"access_cards"}
      [] t = "room_reservations" -> {"rooms", "users"}
      [] t \in {"students", "professors"} -> {"users"}
      [] OTHER -> {}

\* Tables with a foreign key whose type differs from the key it refers to:
\* user_roles.role_id is an Integer and refers to roles.id, a String(36).
\* A storage engine that enforces foreign keys refuses the CREATE TABLE.
IncompatibleForeignKeys == {"user_roles"}

\* required_tables of run_migrations.
RequiredTables ==
    {"users", "access_cards", "rooms", "access_logs", "room_reservations",
     "students", "professors", "roles", "user_roles"}

\* Base.metadata.create_all(bind=engine): CREATE TABLE for every table of
\* the models that the database lacks, referenced tables first; existing
\* tables are left alone.  A refused statement raises, and the tables
\* created before it stay (DDL is not transactional): any set closed under
\* references that holds the tables the refused one refers to.
CreateAllOutcomes(db) ==
    LET missing == ModelTables \ db.tables
        refused == IF db.foreign_keys
                   THEN missing \cap IncompatibleForeignKeys ELSE {}
    IN IF refused = {}
       THEN {[ok |-> TRUE, tables |-> db.tables \cup ModelTables]}
       ELSE {[ok |-> FALSE, tables |-> db.tables \cup created] :
                created \in
                  {S \in SUBSET (missing \ refused) :
                      /\ \A t \in S : References(t) \subseteq db.tables \cup S
                      /\ \E t \in refused :
                            References(t) \cap ModelTables
                               \subseteq db.tables \cup S}}

\* run_migrations: the connection is checked, the tables are created, the
\* column granted is added to access_logs when it is missing, and the
\* required tables are looked for.  The value returned and the database
\* left behind.
MigrationOutcomes(db, reachable) ==
    IF ~reachable
    THEN {[success |-> FALSE, schema |-> db]}
    ELSE {IF ~c.ok
          THEN [success |-> FALSE, schema |-> [db EXCEPT !.tables = c.tables]]
          ELSE [success |-> RequiredTables \subseteq c.tables,
                schema |-> [db EXCEPT !.tables = c.tables, !.granted = TRUE]] :
             c \in CreateAllOutcomes(db)}

\* The rows of access_logs after a run that left the database as after:
\* the rows are rewritten when the run added the column.
MigratedLogs(after) ==
    IF after.granted /\ ~schema.granted
    THEN [id \in DOMAIN logs |->
             IF "granted" \in DOMAIN logs[id] THEN logs[id]
             ELSE AddGrantedColumn(logs[id])]
    ELSE logs

\* What a caller of run_migrations gets back.
MigrationReport(success) ==
    [op |-> "run_migrations", status |-> 0, detail |-> {}, id |-> NoId,
     success |-> success]

\* run_migrations called on its own (the migration script and the tests),
\* with the database reachable or not.
Migrate(reachable) ==
    /\ \E out \in MigrationOutcomes(schema, reachable) :
          /\ schema' = out.schema
          /\ logs' = MigratedLogs(out.schema)
          /\ response' = MigrationReport(out.success)
    /\ UNCHANGED <<rooms, users, reservations, pending, cards, started, emails>>

\* The startup event: run_migrations on the database the application finds;
\* the application starts to serve whether the migrations succeeded or not.
RunMigrations ==
    /\ ~started
    /\ started' = TRUE
    /\ \E out \in MigrationOutcomes(schema, TRUE) :
          /\ schema' = out.schema
          /\ logs' = MigratedLogs(out.schema)
    /\ response' = Answer("startup", 200, {}, NoId)
    /\ UNCHANGED <<rooms, users, reservations, pending, cards, emails>>

\* ==================================================================== claims
\* Two rows of room_reservations, read as half-open intervals, are disjoint.
Disjoint(r1, r2) ==
    r1.end_time <= r2.start_time \/ r2.end_time <= r1.start_time

\* C1: after any sequence of create_reservation and delete_reservation calls
\* run one at a time, any two distinct stored reservations of the same room
\* have disjoint half-open intervals [start_time, end_time).
NoOverlap ==
    \A a \in DOMAIN reservations : \A b \in DOMAIN reservations :
        (a # b /\ reservations[a].room_id = reservations[b].room_id)
            => Disjoint(reservations[a], reservations[b])

\* C1 witness: a room holds two reservations, the second admitted by
\* create_reservation next to the first.
TwoReservationsInOneRoom ==
    /\ response.op = "create_reservation"
    /\ response.status = 201
    /\ \E b \in DOMAIN reservations :
          /\ b # response.id
          /\ reservations[b].room_id = reservations[response.id].room_id

\* Room and user exist, the range is valid and the occupants fit the room.
Admissible(req) ==
    /\ req.room_id \in DOMAIN rooms
    /\ req.reserved_by \in users
    /\ req.start_time < req.end_time
    /\ req.expected_occupants > 0
    /\ req.expected_occupants <= rooms[req.room_id].capacity

\* Some stored reservation of the request's room intersects its interval.
HasConflict(req) ==
    \E id \in DOMAIN reservations :
        /\ reservations[id].room_id = req.room_id
        /\ reservations[id].start_time < req.end_time
        /\ reservations[id].end_time > req.start_time

IsConflictAnswer(a) == a.status = 400 /\ a.detail = {TimeConflict}

\* The table of the model has room for one more row.
HasFreeRow == DOMAIN reservations # ResIds

\* C2: an admissible create_reservation request is rejected with a conflict
\* if and only if a stored reservation of the same room has
\* start_time < end_time of the request and end_time > its start_time;
\* otherwise (touching endpoints, reservations of other rooms) it is stored.
OverlapRule ==
    \A req \in CreateRequests :
        Admissible(req) =>
            /\ IsConflictAnswer(CreateResult(req).answer) <=> HasConflict(req)
            /\ HasConflict(req) => CreateResult(req).table = reservations
            /\ (~HasConflict(req) /\ HasFreeRow) =>
                  /\ CreateResult(req).answer.status = 201
                  /\ CreateResult(req).answer.id \notin DOMAIN reservations
                  /\ CreateResult(req).table[CreateResult(req).answer.id] = req

\* C2 witness: a request was accepted whose start is the end of another
\* reservation of the same room.
TouchingAccepted ==
    /\ response.op = "create_reservation"
    /\ response.status = 201
    /\ \E b \in DOMAIN reservations :
          /\ reservations[b].room_id = reservations[response.id].room_id
          /\ reservations[b].end_time = reservations[response.id].start_time

\* C3: for an existing room and user, a create_reservation request with
\* expected_occupants above the room's capacity is rejected and stores
\* nothing; one with expected_occupants equal to the capacity, a valid range
\* and no conflicting reservation is accepted and stored.
CapacityGuard ==
    \A req \in CreateRequests :
        (req.room_id \in DOMAIN rooms /\ req.reserved_by \in users) =>
            /\ req.expected_occupants > rooms[req.room_id].capacity =>
                  /\ CreateResult(req).answer.status # 201
                  /\ CreateResult(req).table = reservations
            /\ (/\ req.expected_occupants = rooms[req.room_id].capacity
                /\ req.start_time < req.end_time
                /\ ~HasConflict(req)
                /\ HasFreeRow) =>
                  /\ CreateResult(req).answer.status = 201
                  /\ DOMAIN CreateResult(req).table
                        = DOMAIN reservations \cup {CreateResult(req).answer.id}
                  /\ CreateResult(req).table[CreateResult(req).answer.id] = req

\* C3 witness: a request above the capacity has just been rejected while the
\* store holds a reservation admitted with occupants equal to the capacity.
CapacityRejectedAndEqualStored ==
    /\ response.op = "create_reservation"
    /\ response.detail = {CapacityExceeded}
    /\ \E id \in DOMAIN reservations :
          reservations[id].expected_occupants
              = rooms[reservations[id].room_id].capacity

\* C4: a create_reservation request with start_time >= end_time is rejected
\* as invalid input and stores nothing, whatever the room's reservations.
RangeValidity ==
    \A req \in CreateRequests :
        req.start_time >= req.end_time =>
            /\ CreateResult(req).answer.status = 422
            /\ EndAfterStart \in CreateResult(req).answer.detail
            /\ CreateResult(req).table = reservations

\* C4 witness: the range error answered while every room and user exists and
\* no room has a reservation.
RangeRejectedOnEmptyRooms ==
    /\ response.op = "create_reservation"
    /\ EndAfterStart \in response.detail
    /\ DOMAIN rooms = RoomIds
    /\ users = UserIds
    /\ DOMAIN reservations = {}


\* The answer the admission order of the specification prescribes: room
\* exists, user exists, start_time < end_time, occupants within capacity.
OrderAsSpecified(req) ==
    IF req.room_id \notin DOMAIN rooms THEN {RoomNotFound}
    ELSE IF req.reserved_by \notin users THEN {UserNotFound}
    ELSE IF req.start_time >= req.end_time THEN {EndAfterStart}
    ELSE IF req.expected_occupants > rooms[req.room_id].capacity
         THEN {CapacityExceeded}
    ELSE {}

\* C5 as stated: a create_reservation request that violates several
\* preconditions is answered with the error of the first violated one in the
\* order room exists, user exists, start_time < end_time, occupants within
\* capacity (requests with positive expected_occupants).
ChecksInSpecifiedOrder ==
    [][response'.op = "create_reservation" =>
        \A req \in CreateRequests :
            (/\ CreateReservation(req)
             /\ req.expected_occupants > 0
             /\ OrderAsSpecified(req) # {}) =>
                response'.detail = OrderAsSpecified(req)]_vars

\* C5 amended: the range check comes first (schema validation, answered
\* 422 together with the positivity of expected_occupants), then room
\* exists (404), user exists (404), occupants within capacity (400); the
\* overlap check is reached only when all of them pass.
ChecksInCodeOrder ==
    \A req \in CreateRequests :
        LET answer == CreateResult(req).answer IN
        IF req.start_time >= req.end_time
        THEN answer.status = 422 /\ EndAfterStart \in answer.detail
        ELSE IF req.expected_occupants <= 0
        THEN answer.status = 422 /\ answer.detail = {OccupantsPositive}
        ELSE IF req.room_id \notin DOMAIN rooms
        THEN answer.status = 404 /\ answer.detail = {RoomNotFound}
        ELSE IF req.reserved_by \notin users
        THEN answer.status = 404 /\ answer.detail = {UserNotFound}
        ELSE IF req.expected_occupants > rooms[req.room_id].capacity
        THEN answer.status = 400 /\ answer.detail = {CapacityExceeded}
        ELSE /\ IsConflictAnswer(answer) \/ answer.status = 201
             /\ IsConflictAnswer(answer) <=> HasConflict(req)

\* C5 witness: with no room and no user in the store, a request with
\* start_time >= end_time has been answered with the range error.
RangeErrorBeforeLookups ==
    /\ response.op = "create_reservation"
    /\ response.status = 422
    /\ response.detail = {EndAfterStart}
    /\ users = {}
    /\ DOMAIN rooms = {}

\* C6: when create_reservation is called again with the payload of the call
\* that has just been accepted, the second call is rejected as a conflict
\* and the store holds exactly one reservation with that payload.
IdempotentRerun ==
    (response.op = "create_reservation" /\ response.status = 201) =>
        LET payload == reservations[response.id]
            second == CreateResult(payload)
        IN /\ IsConflictAnswer(second.answer)
           /\ second.table = reservations
           /\ Cardinality({id \in DOMAIN second.table :
                 second.table[id] = payload}) = 1

\* C6 witness: a conflict has been answered while the store holds a single
\* reservation and has room for more.
ConflictWithSingleReservation ==
    /\ response.op = "create_reservation"
    /\ IsConflictAnswer(response)
    /\ Cardinality(DOMAIN reservations) = 1

\* C7: with the overlap check and the commit of concurrent create_reservation
\* requests interleaving, it never happens that two requests for the same
\* room with intersecting intervals are both committed.
SerializedAdmission ==
    ~ \E a \in DOMAIN reservations : \E b \in DOMAIN reservations \ {a} :
        /\ reservations[a].room_id = reservations[b].room_id
        /\ reservations[a].start_time < reservations[b].end_time
        /\ reservations[b].start_time < reservations[a].end_time

\* The interval update_reservation checks: the supplied value of each end,
\* the stored one where none is supplied.
NewStart(id, req) ==
    IF req.start_time \in Times THEN req.start_time
    ELSE reservations[id].start_time

NewEnd(id, req) ==
    IF req.end_time \in Times THEN req.end_time
    ELSE reservations[id].end_time

SuppliesTime(req) == req.start_time \in Times \/ req.end_time \in Times

SuppliesNull(req) ==
    Null \in {req.start_time, req.end_time, req.expected_occupants}

\* Update bodies that pass the schema (expected_occupants > 0 when given).
ValidUpdateRequests ==
    {req \in UpdateRequests : req.expected_occupants # 0}

\* Another reservation of the same room intersects [start_time, end_time).
OtherIntersects(id, start_time, end_time) ==
    \E o \in DOMAIN reservations \ {id} :
        /\ reservations[o].room_id = reservations[id].room_id
        /\ reservations[o].start_time < end_time
        /\ start_time < reservations[o].end_time

\* C8: update_reservation ignores the reservation's own record and rejects,
\* leaving the reservation unchanged, an update whose resulting interval
\* intersects another reservation of the same room; after any sequence of
\* create_reservation, update_reservation and delete_reservation calls run
\* one at a time no two reservations of a room overlap.
UpdateKeepsNoOverlap ==
    /\ NoOverlap
    /\ \A id \in DOMAIN reservations : \A req \in ValidUpdateRequests :
          (SuppliesTime(req) /\ NewStart(id, req) < NewEnd(id, req)) =>
              /\ OtherIntersects(id, NewStart(id, req), NewEnd(id, req)) =>
                    /\ IsConflictAnswer(UpdateResult(id, req).answer)
                    /\ UpdateResult(id, req).table = reservations
              /\ (/\ ~OtherIntersects(id, NewStart(id, req), NewEnd(id, req))
                  /\ ~SuppliesNull(req)) =>
                    /\ UpdateResult(id, req).answer.status = 200
                    /\ UpdateResult(id, req).table[id].start_time
                          = NewStart(id, req)
                    /\ UpdateResult(id, req).table[id].end_time
                          = NewEnd(id, req)

\* C8 witness: an update has been accepted that moved a reservation next to
\* another reservation of the same room.
UpdatedNextToAnother ==
    /\ response.op = "update_reservation"
    /\ response.status = 200
    /\ \E o \in DOMAIN reservations \ {response.id} :
          /\ reservations[o].room_id = reservations[response.id].room_id
          /\ reservations[o].end_time = reservations[response.id].start_time

\* C9: update_reservation changes only the fields supplied in the request;
\* with one of start_time and end_time supplied, the range and overlap
\* checks use it together with the stored value of the other; with neither
\* supplied there is no range or overlap check and both stay unchanged;
\* room_id and reserved_by never change, nor does any other reservation.
PartialUpdate ==
    \A id \in DOMAIN reservations : \A req \in ValidUpdateRequests :
        LET row == reservations[id]
            res == UpdateResult(id, req)
            new == res.table[id]
            checked == res.answer.detail \cap {StartBeforeEnd, TimeConflict}
        IN
        /\ DOMAIN res.table = DOMAIN reservations
        /\ \A o \in DOMAIN reservations \ {id} : res.table[o] = reservations[o]
        /\ new.room_id = row.room_id
        /\ new.reserved_by = row.reserved_by
        /\ new.start_time # row.start_time => new.start_time = req.start_time
        /\ new.end_time # row.end_time => new.end_time = req.end_time
        /\ new.expected_occupants # row.expected_occupants =>
              new.expected_occupants = req.expected_occupants
        /\ ~SuppliesTime(req) =>
              /\ checked = {}
              /\ new.start_time = row.start_time
              /\ new.end_time = row.end_time
        /\ (req.start_time \in Times /\ req.end_time \notin Times) =>
              checked =
                  IF req.start_time >= row.end_time THEN {StartBeforeEnd}
                  ELSE IF OtherIntersects(id, req.start_time, row.end_time)
                       THEN {TimeConflict}
                  ELSE {}
        /\ (req.start_time \notin Times /\ req.end_time \in Times) =>
              checked =
                  IF row.start_time >= req.end_time THEN {StartBeforeEnd}
                  ELSE IF OtherIntersects(id, row.start_time, req.end_time)
                       THEN {TimeConflict}
                  ELSE {}
        /\ (checked = {} /\ ~SuppliesNull(req)) =>
              /\ res.answer.status = 200
              /\ new.start_time = NewStart(id, req)
              /\ new.end_time = NewEnd(id, req)
              /\ req.expected_occupants # Unset =>
                    new.expected_occupants = req.expected_occupants

\* C9 witness: an update has been accepted for a reservation whose interval
\* intersects that of a reservation of another room.
UpdateAcceptedBesideOtherRoom ==
    /\ response.op = "update_reservation"
    /\ response.status = 200
    /\ \E o \in DOMAIN reservations \ {response.id} :
          /\ reservations[o].room_id # reservations[response.id].room_id
          /\ ~Disjoint(reservations[o], reservations[response.id])

\* C10: an update_reservation call that sets expected_occupants above the
\* capacity of the reservation's room is rejected and leaves the reservation
\* unchanged: no accepted update changes expected_occupants to a value
\* above the capacity.
UpdateRevalidatesCapacity ==
    [][(/\ response'.op = "update_reservation"
        /\ response'.status = 200
        /\ response'.id \in DOMAIN reservations
        /\ reservations'[response'.id].expected_occupants
              # reservations[response'.id].expected_occupants) =>
            reservations'[response'.id].expected_occupants
                <= rooms[reservations[response'.id].room_id].capacity]_vars

\* C11: in every state reachable by create_room, update_room,
\* create_reservation and update_reservation calls, every stored reservation
\* has expected_occupants <= the current capacity of its room.
CapacityInvariant ==
    \A id \in DOMAIN reservations :
        reservations[id].expected_occupants
            <= rooms[reservations[id].room_id].capacity

\* C12: in every state reachable by create_reservation and
\* update_reservation calls (updates that supply only start_time or only
\* end_time included), every stored reservation has start_time < end_time.
RangeInvariant ==
    \A id \in DOMAIN reservations :
        /\ reservations[id].start_time \in Times
        /\ reservations[id].end_time \in Times
        /\ reservations[id].start_time < reservations[id].end_time

\* C12 witness: update_reservation has answered the range error for a
\* stored reservation.
UpdateRangeRejected ==
    /\ response.op = "update_reservation"
    /\ response.detail = {StartBeforeEnd}
    /\ DOMAIN reservations # {}

\* Reservation id of room_id that intersects the window [start_time, end_time).
IntersectsWindow(id, room_id, start_time, end_time) ==
    /\ reservations[id].room_id = room_id
    /\ reservations[id].start_time < end_time
    /\ reservations[id].end_time > start_time

\* C13: for an existing room and a window with start_time < end_time,
\* check_room_availability lists exactly the stored reservations of the room
\* with r.start_time < end_time and r.end_time > start_time, answers
\* is_available = true iff the list is empty, changes nothing in the store,
\* and is_available is true exactly when create_reservation for the same
\* room and window (by an existing user, with occupants that fit the room)
\* would not be rejected for a time conflict.
AvailabilityAgreesWithAdmission ==
    [][\A room_id \in DOMAIN rooms : \A start_time \in Times, end_time \in Times :
        (start_time < end_time
         /\ CheckRoomAvailability(room_id, start_time, end_time)) =>
            /\ response'.status = 200
            /\ {c.id : c \in response'.conflicting_reservations}
                  = {id \in DOMAIN reservations :
                        IntersectsWindow(id, room_id, start_time, end_time)}
            /\ \A c \in response'.conflicting_reservations :
                  /\ c.start_time = reservations[c.id].start_time
                  /\ c.end_time = reservations[c.id].end_time
                  /\ c.reserved_by = reservations[c.id].reserved_by
            /\ response'.is_available
                  <=> response'.conflicting_reservations = {}
            /\ <<rooms, users, reservations, cards, logs>>'
                  = <<rooms, users, reservations, cards, logs>>
            /\ \A req \in CreateRequests :
                  (/\ req.room_id = room_id
                   /\ req.start_time = start_time
                   /\ req.end_time = end_time) =>
                      /\ IsConflictAnswer(CreateResult(req).answer)
                            => ~response'.is_available
                      /\ Admissible(req) =>
                            (response'.is_available
                                <=> ~IsConflictAnswer(CreateResult(req).answer))]_vars

\* C13 witness: the query has answered not available for a room that also
\* holds a reservation outside the list (it only touches the window).
AvailabilityListsOnlyIntersecting ==
    /\ response.op = "check_room_availability"
    /\ response.status = 200
    /\ ~response.is_available
    /\ \E id \in DOMAIN reservations :
          /\ reservations[id].room_id = response.id
          /\ reservations[id].end_time = response.start_time
          /\ id \notin {c.id : c \in response.conflicting_reservations}

\* The rows a step has added to access_logs.
NewLogs == DOMAIN logs' \ DOMAIN logs

\* The card that carries card_number (NoId when there is none).
CardOfNumber(card_number) ==
    IF CardsWithNumber(card_number) = {} THEN NoId
    ELSE CHOOSE id \in CardsWithNumber(card_number) : TRUE

\* C14: for a card whose status is lost or disabled and any requested type
\* in {entry, exit, denied}, simulate_access records a log with
\* access_type = denied and granted = false; simulate_access never records
\* a granted log for a card that is not active.
StatusOverride ==
    [][\A req \in SimulateRequests :
        (/\ SimulateAccess(req)
         /\ req.access_type \in AccessTypeNames
         /\ CardOfNumber(req.card_number) # NoId) =>
            LET card_id == CardOfNumber(req.card_number) IN
            /\ cards[card_id].status \in {"lost", "disabled"} =>
                  \E id \in NewLogs :
                      /\ logs'[id].card_id = card_id
                      /\ logs'[id].access_type = "denied"
                      /\ logs'[id].granted = FALSE
            /\ cards[card_id].status # "active" =>
                  \A id \in NewLogs : logs'[id].granted = FALSE]_vars

\* C15: for a card whose stored status is active, simulate_access with
\* requested type entry or exit records a log with that type and
\* granted = true, and with requested type denied records denied with
\* granted = false.
ActiveKeepsRequestedType ==
    [][\A req \in SimulateRequests :
        (/\ SimulateAccess(req)
         /\ req.access_type \in AccessTypeNames
         /\ CardOfNumber(req.card_number) # NoId
         /\ cards[CardOfNumber(req.card_number)].status = "active") =>
            \E id \in NewLogs :
                /\ logs'[id].card_id = CardOfNumber(req.card_number)
                /\ logs'[id].access_type = req.access_type
                /\ logs'[id].granted = (req.access_type # "denied")]_vars

\* C16: every simulate_access call with a valid access_type and an existing
\* card_number adds exactly one row to access_logs, for the looked-up card
\* and with the given location; no other row is added, changed or removed.
AuditCompleteness ==
    [][\A req \in SimulateRequests :
        (/\ SimulateAccess(req)
         /\ req.access_type \in AccessTypeNames
         /\ CardOfNumber(req.card_number) # NoId) =>
            /\ Cardinality(DOMAIN logs') = Cardinality(DOMAIN logs) + 1
            /\ \A id \in DOMAIN logs :
                  id \in DOMAIN logs' /\ logs'[id] = logs[id]
            /\ \A id \in NewLogs :
                  /\ logs'[id].card_id = CardOfNumber(req.card_number)
                  /\ logs'[id].location = req.location]_vars

\* C17: simulate_access with an access_type outside {entry, exit, denied}
\* fails with 400, also when the card_number does not exist; with a valid
\* type and an unknown card_number it fails with 404; in both cases no row
\* of access_logs is written.
SimulateErrorOutcomes ==
    \A req \in SimulateRequests :
        /\ req.access_type \notin {"entry", "exit", "denied"} =>
              /\ SimulateResult(req).answer.status = 400
              /\ SimulateResult(req).answer.detail = {InvalidAccessType}
              /\ SimulateResult(req).table = logs
        /\ (/\ req.access_type \in {"entry", "exit", "denied"}
            /\ \A id \in DOMAIN cards :
                  cards[id].card_number # req.card_number) =>
              /\ SimulateResult(req).answer.status = 404
              /\ SimulateResult(req).answer.detail = {CardNotFound}
              /\ SimulateResult(req).table = logs

\* C17 witness: the invalid type has been answered while no card exists.
InvalidTypeWithoutCards ==
    /\ response.op = "simulate_access"
    /\ response.status = 400
    /\ DOMAIN cards = {}

\* C18: every stored row of access_logs has granted = true iff its
\* access_type is not denied, whether back-filled by the migration of the
\* granted column or written by simulate_access or by create_access_log
\* (whatever granted value the body carries).
GrantedIsDerived ==
    LET Derived(table) ==
            \A id \in DOMAIN table :
                table[id].granted <=> table[id].access_type # "denied"
    IN started =>
          /\ Derived(logs)
          /\ \A req \in SimulateRequests : Derived(SimulateResult(req).table)
          /\ \A req \in CreateLogRequests : Derived(CreateLogResult(req).table)

\* C18 witness: after the migration the table holds a denied row with
\* granted = false and a row of another type.
BackfilledDeniedRow ==
    /\ started
    /\ \E id \in DOMAIN logs :
          logs[id].access_type = "denied" /\ logs[id].granted = FALSE
    /\ \E id \in DOMAIN logs : logs[id].access_type # "denied"

\* C19: create_access_log, given the id of an existing card, stores the
\* requested access_type unchanged whatever the card's status, with
\* granted = true iff the type is not denied (for a lost or disabled card
\* and type entry: a log with entry and granted = true).
DirectLogKeepsType ==
    [][\A req \in CreateLogRequests :
        (CreateAccessLog(req) /\ req.card_id \in DOMAIN cards) =>
            \E id \in NewLogs :
                /\ logs'[id].card_id = req.card_id
                /\ logs'[id].access_type = req.access_type
                /\ logs'[id].granted = (req.access_type # "denied")]_vars

\* C20: once the application runs, a row of access_logs stays in the table
\* with the same location, access_type and granted whatever operation
\* follows (delete_access_card and delete_user included); only its card_id
\* may change.
AppendOnly ==
    [][started =>
        \A id \in DOMAIN logs :
            /\ id \in DOMAIN logs'
            /\ logs'[id].location = logs[id].location
            /\ logs'[id].access_type = logs[id].access_type
            /\ logs'[id].granted = logs[id].granted]_vars

\* C21: in every reachable state each card's status is one of active, lost,
\* disabled; from any current status an update (update_card_status or
\* update_access_card) of an existing card to any of the three values is
\* accepted and stores that value; and a later simulate_access for the card
\* is decided by the stored status: it records the requested type for an
\* active card and denied for any other.
FreeFormStatus ==
    [][/\ \A id \in DOMAIN cards' : cards'[id].status \in CardStatusNames
       /\ \A id \in DOMAIN cards, st \in CardStatusNames :
             (UpdateCardStatus(id, st) \/ UpdateAccessCard(id, st)) =>
                 /\ response'.status = 200
                 /\ cards'[id].status = st
       /\ \A req \in SimulateRequests :
             (/\ SimulateAccess(req)
              /\ req.access_type \in AccessTypeNames
              /\ CardOfNumber(req.card_number) # NoId) =>
                 LET card_id == CardOfNumber(req.card_number) IN
                 \E id \in NewLogs :
                     /\ logs'[id].card_id = card_id
                     /\ logs'[id].access_type =
                           IF cards[card_id].status = "active"
                           THEN req.access_type ELSE "denied"]_vars

\* C22: no two stored cards have the same card_number, so the lookup by
\* card_number finds at most one card; create_access_card with a
\* card_number already in use is rejected and stores nothing.
UniqueCardNumbers ==
    /\ \A a, b \in DOMAIN cards :
          cards[a].card_number = cards[b].card_number => a = b
    /\ \A n \in CardNumbers : Cardinality(CardsWithNumber(n)) <= 1
    /\ \A req \in CreateCardRequests :
          CardsWithNumber(req.card_number) # {} =>
              /\ CreateCardResult(req).answer.status \in {400, 404}
              /\ CreateCardResult(req).table = cards

\* A create_access_card was rejected for its card_number while two cards
\* with different numbers are stored.
DuplicateNumberRejected ==
    /\ response.op = "create_access_card"
    /\ response.status = 400
    /\ response.detail = {CardNumberExists}
    /\ Cardinality(DOMAIN cards) = 2

\* C25: the answer to an unhandled exception is the same whatever the
\* exception's message is: two calls of one endpoint that both end in an
\* unhandled exception are answered with identical responses.
GenericFaultReport ==
    [][(/\ response.status = 500
        /\ response'.status = 500
        /\ response'.op = response.op) => response' = response]_vars

\* C28: update_card_status for a card id that does not exist is answered
\* 404, for an existing card with a status outside {active, lost, disabled}
\* it is answered 400, and in both cases no card is changed.
UpdateCardStatusErrors ==
    [][\A id \in CardIds, st \in CardStatusNames \cup {"stolen"} :
        UpdateCardStatus(id, st) =>
            /\ id \notin DOMAIN cards =>
                  response'.status = 404 /\ cards' = cards
            /\ (id \in DOMAIN cards /\ st \notin CardStatusNames) =>
                  response'.status = 400 /\ cards' = cards]_vars

\* C23: no two stored users have the same email; create_user with an email
\* already in use, and update_user changing the email to one used by
\* another user, are rejected and leave the users unchanged, while
\* update_user that re-sends the user's own email is accepted.
UniqueEmails ==
    /\ DOMAIN emails = users
    /\ \A a, b \in users : emails[a] = emails[b] => a = b
    /\ \A req \in CreateUserRequests :
          req.email \in UserEmails =>
              LET out == CreateUserResult(AccountIds, req) IN
              /\ out.answer.status = 400
              /\ out.users = users
              /\ out.emails = emails
    /\ \A id \in users, req \in UpdateUserRequests :
          LET out == UpdateUserResult(id, req) IN
          /\ (\E other \in users \ {id} : emails[other] = req.email) =>
                out.answer.status = 400 /\ out.emails = emails
          /\ req.email = emails[id] =>
                out.answer.status = 200 /\ out.emails = emails

\* An update_user was rejected for its email while two users are stored.
UsedEmailRejectedOnUpdate ==
    /\ response.op = "update_user"
    /\ response.status = 400
    /\ response.detail = {EmailExists}
    /\ Cardinality(users) = 2

\* C26: with a reachable database, run_migrations run twice in a row
\* succeeds both times, and the tables and the presence of the column
\* granted after the second run are those after the first run.
MigrationsIdempotent ==
    [][Migrate(TRUE) =>
        /\ response'.success
        /\ \A second \in MigrationOutcomes(schema', TRUE) :
              /\ second.success
              /\ second.schema.tables = schema'.tables
              /\ second.schema.granted = schema'.granted]_vars

\* C27: whenever run_migrations returns success, the database contains each
\* of the tables users, access_cards, rooms, access_logs, reservations,
\* students and professors.
TablesAfterMigration ==
    (response.op = "run_migrations" /\ response.success) =>
        {"users", "access_cards", "rooms", "access_logs", "reservations",
         "students", "professors"} \subseteq schema.tables

\* C29: every stored reservation refers to an existing room and an existing
\* user and every stored card to an existing user; delete_room removes
\* exactly the reservations of the room, delete_user exactly the
\* reservations and the cards of the user, and delete_reservation only the
\* reservation itself.
ReferentialIntegrity ==
    [][/\ \A id \in DOMAIN reservations' :
             /\ reservations'[id].room_id \in DOMAIN rooms'
             /\ reservations'[id].reserved_by \in users'
       /\ \A id \in DOMAIN cards' : cards'[id].user_id \in users'
       /\ \A room_id \in DOMAIN rooms :
             DeleteRoom(room_id) =>
                 /\ room_id \notin DOMAIN rooms'
                 /\ reservations' =
                       Without(reservations,
                               {id \in DOMAIN reservations :
                                   reservations[id].room_id = room_id})
                 /\ users' = users /\ cards' = cards
       /\ \A user_id \in users :
             DeleteUser(user_id) =>
                 /\ user_id \notin users'
                 /\ reservations' =
                       Without(reservations,
                               {id \in DOMAIN reservations :
                                   reservations[id].reserved_by = user_id})
                 /\ cards' =
                       Without(cards, {id \in DOMAIN cards :
                                          cards[id].user_id = user_id})
                 /\ rooms' = rooms
       /\ \A reservation_id \in DOMAIN reservations :
             DeleteReservation(reservation_id) =>
                 /\ reservations' = Without(reservations, {reservation_id})
                 /\ rooms' = rooms /\ users' = users /\ cards' = cards]_vars

\* A room has just been deleted: reservation 1 is gone and reservation 2,
\* of another room, is still stored.
RoomDeletedOthersKept ==
    /\ response.op = "delete_room"
    /\ response.status = 204
    /\ DOMAIN reservations = {2}

\* C30: after delete_reservation of an existing reservation r, a
\* create_reservation for the same room with an interval that conflicted
\* only with r (valid room, user and capacity) is accepted; and
\* delete_reservation of an id that does not exist is answered 404 and
\* changes nothing.
DeleteFreesSlot ==
    [][\A id \in ResIds :
        DeleteReservation(id) =>
            /\ id \notin DOMAIN reservations =>
                  /\ response'.status = 404
                  /\ response'.detail = {ReservationNotFound}
                  /\ reservations' = reservations
                  /\ rooms' = rooms /\ users' = users
            /\ id \in DOMAIN reservations =>
                  \A req \in CreateRequests :
                      (/\ Admissible(req)
                       /\ {r \in DOMAIN reservations :
                              IntersectsWindow(r, req.room_id, req.start_time,
                                               req.end_time)} = {id}) =>
                          /\ CreateResult(req)'.answer.status = 201
                          /\ \E r \in DOMAIN CreateResult(req)'.table :
                                CreateResult(req)'.table[r] = req]_vars

\* A reservation has just been deleted and another one is still stored.
DeletedBesideAnother ==
    /\ response.op = "delete_reservation"
    /\ response.status = 204
    /\ response.id \notin DOMAIN reservations
    /\ Cardinality(DOMAIN reservations) = 1

\* The rows that differ between two contents of a table.
ChangedRows(before, after) ==
    {id \in DOMAIN before \cup DOMAIN after :
        \/ id \notin DOMAIN before
        \/ id \notin DOMAIN after
        \/ before[id] # after[id]}

\* The number of rows of rooms, reservations, cards and access logs that a
\* step writes.
RowsWritten ==
    Cardinality(ChangedRows(rooms, rooms'))
    + Cardinality(ChangedRows(reservations, reservations'))
    + Cardinality(ChangedRows(cards, cards'))
    + Cardinality(ChangedRows(logs, logs'))

AdmissionAndDecisionCalls ==
    {"create_reservation", "update_reservation", "simulate_access",
     "create_access_log"}

\* C24: every rejected call of create_reservation, update_reservation,
\* simulate_access or create_access_log leaves the stored rooms,
\* reservations, cards and access logs as before the call, and every
\* accepted call writes exactly one row.
NoPartialFailure ==
    [][response'.op \in AdmissionAndDecisionCalls =>
          IF response'.status >= 400
          THEN RowsWritten = 0
          ELSE RowsWritten = 1]_vars

\* C24 as amended: every rejected call leaves the store as before, an
\* accepted create_reservation writes exactly one row (the new
\* reservation), and any other accepted call writes at most one row: an
\* accepted update_reservation changes at most the reservation it names.
AtMostOneWrite ==
    [][response'.op \in AdmissionAndDecisionCalls =>
          IF response'.status >= 400
          THEN RowsWritten = 0
          ELSE /\ RowsWritten <= 1
               /\ response'.op = "create_reservation" =>
                     /\ RowsWritten = 1
                     /\ response'.id \in DOMAIN reservations' \ DOMAIN reservations
               /\ response'.op = "update_reservation" =>
                     ChangedRows(reservations, reservations')
                        \subseteq {response'.id}]_vars

\* An update_reservation has been rejected for a conflict while two
\* reservations and a card are stored.
UpdateRejectedBesideCard ==
    /\ response.op = "update_reservation"
    /\ IsConflictAnswer(response)
    /\ Cardinality(DOMAIN reservations) = 2
    /\ DOMAIN cards # {}

\* ------------------------------------------------------------ state machine
Init ==
    /\ rooms = <<>>
    /\ users = {}
    /\ reservations = <<>>
    /\ response = Answer("startup", 200, {}, NoId)
    /\ pending = [p \in Procs |-> Idle]
    /\ cards = <<>>
    /\ logs = <<>>
    /\ started = TRUE
    /\ emails = <<>>
    /\ schema = [tables |-> ModelTables, granted |-> TRUE, foreign_keys |-> TRUE]

Next ==
    \/ \E c \in 0..MaxCap : CreateRoom(c)
    \/ CreateUser
    \/ \E req \in CreateRequests : CreateReservation(req)
    \/ \E id \in ResIds, req \in UpdateRequests : UpdateReservation(id, req)
    \/ \E id \in ResIds : DeleteReservation(id)

Spec == Init /\ [][Next]_vars

\* create_reservation and delete_reservation only.
NextCD ==
    \/ \E c \in 0..MaxCap : CreateRoom(c)
    \/ CreateUser
    \/ \E req \in CreateRequests : CreateReservation(req)
    \/ \E id \in ResIds : DeleteReservation(id)

SpecCD == Init /\ [][NextCD]_vars

\* Rooms created and updated while reservations are created (the runs of
\* create_room, update_room and create_reservation; update_reservation is
\* left to Spec).
NextRooms ==
    \/ \E c \in 0..MaxCap : CreateRoom(c)
    \/ \E id \in RoomIds, req \in UpdateRoomRequests : UpdateRoom(id, req)
    \/ CreateUser
    \/ \E req \in CreateRequests : CreateReservation(req)

SpecRooms == Init /\ [][NextRooms]_vars

\* The database the application is started on: empty, or written before the
\* column granted existed (one user, at most one card, logs of that card or
\* of a card deleted since).
LegacyLogs(card_ids) ==
    [card_id : card_ids \cup {Null}, location : Locations,
     access_type : AccessTypeNames]

InitAccess ==
    /\ rooms = <<>>
    /\ reservations = <<>>
    /\ response = Answer("load", 200, {}, NoId)
    /\ pending = [p \in Procs |-> Idle]
    /\ started = FALSE
    /\ schema = [tables |-> ModelTables, granted |-> FALSE, foreign_keys |-> TRUE]
    /\ \/ users = {} /\ emails = <<>> /\ cards = <<>> /\ logs = <<>>
       \/ /\ users = {1}
          /\ emails = (1 :> 1)
          /\ \E s \in CardStatusNames :
                cards = (1 :> [user_id |-> 1, card_number |-> 1, status |-> s])
          /\ \E ids \in {{}, {1}, 1..2} : logs \in [ids -> LegacyLogs({1})]

\* Cards, logs and the users that own them.
NextAccess ==
    \/ RunMigrations
    \/ CreateUser
    \/ \E id \in UserIds : DeleteUser(id)
    \/ \E req \in CreateCardRequests : CreateAccessCard(req)
    \/ \E id \in CardIds, st \in UpdateCardRequests : UpdateAccessCard(id, st)
    \/ \E id \in CardIds, st \in CardStatusNames \cup {"stolen"} :
          UpdateCardStatus(id, st)
    \/ \E id \in CardIds : DeleteAccessCard(id)
    \/ \E req \in CreateLogRequests : CreateAccessLog(req)
    \/ \E req \in SimulateRequests : SimulateAccess(req)

SpecAccess == InitAccess /\ [][NextAccess]_vars

\* The users and their emails.
NextUsers ==
    \/ \E req \in CreateUserRequests : CreateAccount(req)
    \/ \E id \in AccountIds, req \in UpdateUserRequests : UpdateUser(id, req)
    \/ \E id \in AccountIds : DeleteUser(id)
    \/ \E req \in CreateCardRequests : CreateAccessCard(req)

SpecUsers == Init /\ [][NextUsers]_vars

\* A database that holds a user and a card of theirs.
InitWrites ==
    /\ rooms = <<>>
    /\ users = {1}
    /\ reservations = <<>>
    /\ response = Answer("startup", 200, {}, NoId)
    /\ pending = [p \in Procs |-> Idle]
    /\ cards = (1 :> [user_id |-> 1, card_number |-> 1, status |-> "active"])
    /\ logs = <<>>
    /\ started = TRUE
    /\ emails = (1 :> 1)
    /\ schema = [tables |-> ModelTables, granted |-> TRUE, foreign_keys |-> TRUE]

\* The admission of reservations and the access decisions: the handlers
\* that write reservations and access logs.
NextWrites ==
    \/ \E c \in 0..MaxCap : CreateRoom(c)
    \/ \E req \in CreateRequests : CreateReservation(req)
    \/ \E id \in ResIds, req \in UpdateRequests : UpdateReservation(id, req)
    \/ \E req \in CreateLogRequests : CreateAccessLog(req)
    \/ \E req \in SimulateRequests : SimulateAccess(req)

SpecWrites == InitWrites /\ [][NextWrites]_vars

\* Create and delete of users, rooms, cards and reservations.
NextRef ==
    \/ \E c \in 0..MaxCap : CreateRoom(c)
    \/ \E id \in RoomIds : DeleteRoom(id)
    \/ CreateUser
    \/ \E id \in UserIds : DeleteUser(id)
    \/ \E req \in CreateCardRequests : CreateAccessCard(req)
    \/ \E id \in CardIds : DeleteAccessCard(id)
    \/ \E req \in CreateRequests : CreateReservation(req)
    \/ \E id \in ResIds : DeleteReservation(id)

SpecRef == Init /\ [][NextRef]_vars

\* The database run_migrations can find: any set of tables, with or without
\* the column granted, on a storage engine that enforces foreign keys or
\* not; no rows.
InitMigrate ==
    /\ rooms = <<>>
    /\ users = {}
    /\ reservations = <<>>
    /\ response = Answer("load", 200, {}, NoId)
    /\ pending = [p \in Procs |-> Idle]
    /\ cards = <<>>
    /\ logs = <<>>
    /\ started = FALSE
    /\ emails = <<>>
    /\ schema \in [tables : SUBSET TableNames, granted : BOOLEAN,
                   foreign_keys : BOOLEAN]
    /\ schema.granted => "access_logs" \in schema.tables

NextMigrate ==
    \/ \E reachable \in BOOLEAN : Migrate(reachable)
    \/ RunMigrations

SpecMigrate == InitMigrate /\ [][NextMigrate]_vars

\* create_reservation, delete_reservation and the availability query.
NextAvail ==
    \/ \E c \in 0..MaxCap : CreateRoom(c)
    \/ CreateUser
    \/ \E req \in CreateRequests : CreateReservation(req)
    \/ \E id \in ResIds : DeleteReservation(id)
    \/ \E room_id \in RoomIds, start_time \in Times, end_time \in Times :
          CheckRoomAvailability(room_id, start_time, end_time)

SpecAvail == Init /\ [][NextAvail]_vars

\* Concurrent workers: the two halves of create_reservation interleave.
NextConc ==
    \/ \E c \in 0..MaxCap : CreateRoom(c)
    \/ CreateUser
    \/ \E p \in Procs, req \in CreateRequests : CheckReservation(p, req)
    \/ \E p \in Procs : CommitReservation(p)

SpecConc == Init /\ [][NextConc]_vars

====
